---- MODULE Spec2Model ----
(***************************************************************************)
(* School-records manager: the relationship protocol between students,    *)
(* instructors and courses, as implemented three times in the repository: *)
(*   - utils.py over database.py    (school.db, foreign keys ON),          *)
(*   - DatabaseManager in database_pyqt.py (school_management.db, the      *)
(*     connection never enables foreign keys),                             *)
(*   - the object graph of classes.py (Student / Instructor / Course).     *)
(* A running program drives exactly one of them (tkinter-ui.py imports     *)
(* utils, PyQt.py owns a DatabaseManager); `impl` records which one.       *)
(***************************************************************************)
EXTENDS Integers, Sequences, FiniteSets, TLC

\* ---------------------------------------------------------------- bounds
\* how many students the program is driven with
NumStudents == 1

\* ------------------------------------------------------------ input pools
StudentIdPool == <<"S1", "S2", "S3", "S4">>
StudentEmailPool == <<"ann@x.com", "bob@x.com", "cy@x.com", "di@x.com">>
StudentIds == {StudentIdPool[n] : n \in 1..NumStudents}
\* two instructors and two courses: enough for "a different instructor" and
\* "a different course"
InstructorIds == {"I1", "I2"}
CourseIds == {"C1", "C2"}
InstructorEmail == [i \in InstructorIds |-> IF i = "I1" THEN "ivy@x.com" ELSE "jo@x.com"]
CourseName == [c \in CourseIds |-> IF c = "C1" THEN "Algo" ELSE "Nets"]
Pairs == StudentIds \X CourseIds

\* SQL NULL and Python None
NULL == "NULL"

\* the three implementations of the protocol
Impls == {"utils", "DatabaseManager", "classes"}

VARIABLES
    impl,               \* which implementation the running program drives
    udb,                \* school.db, the database behind utils.py
    ddb,                \* school_management.db, the database behind DatabaseManager
    registered_courses, \* Student.registered_courses, per Student object
    enrolled_students,  \* Course.enrolled_students, per Course object
    instructor,         \* Course.instructor, per Course object
    assigned_courses,   \* Instructor.assigned_courses, per Instructor object
    call,               \* the last call made: <<name, arguments...>>
    ret,                \* what the last call returned (or the exception it raised)
    before,             \* the store (database or object graph) as the last call found it
    selected_student_id, \* the row selected in the students table of the GUI, or None
    selected_course_id, \* the row selected in the courses table of the GUI, or None
    open_connections    \* are there sqlite3 connections opened and not closed: "none" or "some"

vars == <<impl, udb, ddb, registered_courses, enrolled_students, instructor,
          assigned_courses, call, ret, before, selected_student_id, selected_course_id,
          open_connections>>
dbvars == <<udb, ddb>>
objvars == <<registered_courses, enrolled_students, instructor, assigned_courses>>
guivars == <<selected_student_id, selected_course_id>>

\* ------------------------------------------------------- the SQLite store
\* A database: students and instructors map a primary key to a row, courses
\* map a primary key to a row holding the optional instructor reference, and
\* the join table counts the rows it holds per (student_id, course_id).
EmptyDb ==
    [students |-> << >>, instructors |-> << >>, courses |-> << >>,
     registrations |-> [p \in Pairs |-> 0]]

\* f with key k set to row v (an INSERT of a new key or an UPDATE of a row)
Put(f, k, v) == [x \in (DOMAIN f) \cup {k} |-> IF x = k THEN v ELSE f[x]]
\* f without the keys in ks (a DELETE)
Drop(f, ks) == [x \in (DOMAIN f) \ ks |-> f[x]]

\* database._connect: every utils statement runs with PRAGMA foreign_keys = ON
\* on the schema of database.init_db (age has CHECK(age >= 0)).
Connect == [foreign_keys |-> TRUE, age_check |-> TRUE]
\* DatabaseManager.get_connection: a bare sqlite3.connect, so foreign keys keep
\* SQLite's default (OFF); the schema of init_database has no CHECK on age.
get_connection == [foreign_keys |-> FALSE, age_check |-> FALSE]

\* sqlite3.connect(path) in a method that never calls conn.close(): leaving
\* `with conn:` commits or rolls back and does not close, so the connection
\* stays open until the interpreter finalises the Connection object
sqlite3_connect(open) == "some"
\* conn = _connect() ... finally: conn.close(): the connection the operation
\* opened is closed on every path, and those open before it are what is left
conn_close(open) == open

\* a Python bool as the caller sees it
Bool(b) == IF b THEN "True" ELSE "False"

\* the outcome of one statement: did it raise, the database after it, rowcount
Raised(db) == [ok |-> FALSE, db |-> db, rowcount |-> 0]
Done(db, n) == [ok |-> TRUE, db |-> db, rowcount |-> n]

\* sum of the row counts of the join table over the pairs in ps
RECURSIVE CountRows(_, _)
CountRows(reg, ps) ==
    IF ps = {} THEN 0
    ELSE LET p == CHOOSE q \in ps : TRUE
         IN  reg[p] + CountRows(reg, ps \ {p})

\* InsertPerson as it would be as INSERT OR REPLACE: a row with the same
\* primary key is replaced instead of raising
InsertOrReplacePerson(db, conn, table, id, name, age, email) ==
    IF \/ name = NULL
       \/ email = NULL
       \/ \E k \in (DOMAIN db[table]) \ {id} : db[table][k].email = email
       \/ (conn.age_check /\ age < 0)
    THEN Raised(db)
    ELSE Done([db EXCEPT ![table] = Put(@, id, [name |-> name, age |-> age, email |-> email])], 1)

\* INSERT INTO students / instructors (id, name, age, email) VALUES (?,?,?,?)
\* PRIMARY KEY on the id, NOT NULL on name and email, UNIQUE on email (SQLite's
\* default BINARY collation: exact text), CHECK(age >= 0) where the schema has it.
InsertPerson(db, conn, table, id, name, age, email) ==
    IF \/ id \in DOMAIN db[table]
       \/ name = NULL
       \/ email = NULL
       \/ \E k \in DOMAIN db[table] : db[table][k].email = email
       \/ (conn.age_check /\ age < 0)
    THEN Raised(db)
    ELSE Done([db EXCEPT ![table] = Put(@, id, [name |-> name, age |-> age, email |-> email])], 1)

\* UPDATE students / instructors SET name=?, age=?, email=? WHERE id=?
UpdatePerson(db, conn, table, id, name, age, email) ==
    IF id \notin DOMAIN db[table] THEN Done(db, 0)
    ELSE IF \/ name = NULL
            \/ email = NULL
            \/ \E k \in (DOMAIN db[table]) \ {id} : db[table][k].email = email
            \/ (conn.age_check /\ age < 0)
    THEN Raised(db)
    ELSE Done([db EXCEPT ![table] = Put(@, id, [name |-> name, age |-> age, email |-> email])], 1)

\* DELETE FROM registrations / student_courses WHERE student_id IN sids AND course_id IN cids
DeleteRegistrations(db, sids, cids) ==
    LET hit == {p \in Pairs : p[1] \in sids /\ p[2] \in cids}
    IN  Done([db EXCEPT !.registrations = [p \in Pairs |-> IF p \in hit THEN 0 ELSE @[p]]],
             CountRows(db.registrations, hit))

\* DeleteStudentRow as it would be if the registrations were not cascaded
DeleteStudentRowNoCascade(db, conn, sid) ==
    IF sid \notin DOMAIN db.students THEN Done(db, 0)
    ELSE Done([db EXCEPT !.students = Drop(@, {sid})], 1)

\* DELETE FROM students WHERE student_id=?
\* registrations.student_id REFERENCES students ON DELETE CASCADE (foreign keys ON only)
DeleteStudentRow(db, conn, sid) ==
    IF sid \notin DOMAIN db.students THEN Done(db, 0)
    ELSE LET cascaded == IF conn.foreign_keys
                         THEN DeleteRegistrations(db, {sid}, CourseIds).db
                         ELSE db
         IN  Done([cascaded EXCEPT !.students = Drop(@, {sid})], 1)

\* ClearInstructor as it would be if no course row matched
ClearInstructorNoRows(db, iid) == Done(db, 0)

\* UPDATE courses SET instructor_id = NULL WHERE instructor_id = ?
ClearInstructor(db, iid) ==
    LET hit == {c \in DOMAIN db.courses : db.courses[c].instructor_id = iid}
    IN  Done([db EXCEPT !.courses =
                 [c \in DOMAIN @ |-> IF c \in hit THEN [@[c] EXCEPT !.instructor_id = NULL]
                                                  ELSE @[c]]],
             Cardinality(hit))

\* DELETE FROM instructors WHERE instructor_id=?
\* courses.instructor_id REFERENCES instructors ON DELETE SET NULL (database.py,
\* foreign keys ON); with foreign keys OFF the courses are left as they are.
DeleteInstructorRow(db, conn, iid) ==
    IF iid \notin DOMAIN db.instructors THEN Done(db, 0)
    ELSE LET cleared == IF conn.foreign_keys THEN ClearInstructor(db, iid).db ELSE db
         IN  Done([cleared EXCEPT !.instructors = Drop(@, {iid})], 1)

\* DeleteCourseRow as it would be if the registrations were not cascaded
DeleteCourseRowNoCascade(db, conn, cid) ==
    IF cid \notin DOMAIN db.courses THEN Done(db, 0)
    ELSE Done([db EXCEPT !.courses = Drop(@, {cid})], 1)

\* DELETE FROM courses WHERE course_id=?
\* registrations.course_id REFERENCES courses ON DELETE CASCADE (foreign keys ON only)
DeleteCourseRow(db, conn, cid) ==
    IF cid \notin DOMAIN db.courses THEN Done(db, 0)
    ELSE LET cascaded == IF conn.foreign_keys
                         THEN DeleteRegistrations(db, StudentIds, {cid}).db
                         ELSE db
         IN  Done([cascaded EXCEPT !.courses = Drop(@, {cid})], 1)

\* the FOREIGN KEY(instructor_id) REFERENCES instructors check of a courses row
InstructorKeyOk(db, conn, iid) ==
    ~conn.foreign_keys \/ iid = NULL \/ iid \in DOMAIN db.instructors

\* INSERT INTO courses(course_id, course_name, instructor_id) VALUES(?,?,?)
InsertCourse(db, conn, cid, course_name, iid) ==
    IF \/ cid \in DOMAIN db.courses
       \/ course_name = NULL
       \/ ~InstructorKeyOk(db, conn, iid)
    THEN Raised(db)
    ELSE Done([db EXCEPT !.courses =
                  Put(@, cid, [course_name |-> course_name, instructor_id |-> iid])], 1)

\* UPDATE courses SET course_name=?, instructor_id=? WHERE course_id=?
UpdateCourse(db, conn, cid, course_name, iid) ==
    IF cid \notin DOMAIN db.courses THEN Done(db, 0)
    ELSE IF course_name = NULL \/ ~InstructorKeyOk(db, conn, iid) THEN Raised(db)
    ELSE Done([db EXCEPT !.courses =
                  Put(@, cid, [course_name |-> course_name, instructor_id |-> iid])], 1)

\* SetInstructor as it would be without its WHERE clause: every course is updated
SetInstructorEverywhere(db, conn, cid, iid) ==
    IF cid \notin DOMAIN db.courses THEN Done(db, 0)
    ELSE IF ~InstructorKeyOk(db, conn, iid) THEN Raised(db)
    ELSE Done([db EXCEPT !.courses = [c \in DOMAIN @ |-> [@[c] EXCEPT !.instructor_id = iid]]],
              Cardinality(DOMAIN db.courses))

\* UPDATE courses SET instructor_id=? WHERE course_id=?
SetInstructor(db, conn, cid, iid) ==
    IF cid \notin DOMAIN db.courses THEN Done(db, 0)
    ELSE IF ~InstructorKeyOk(db, conn, iid) THEN Raised(db)
    ELSE Done([db EXCEPT !.courses[cid].instructor_id = iid], 1)

\* InsertOrIgnoreRegistration as it would be on a join table without its primary key
InsertRegistrationNoKey(db, conn, sid, cid) ==
    IF conn.foreign_keys /\ (sid \notin DOMAIN db.students \/ cid \notin DOMAIN db.courses)
    THEN Raised(db)
    ELSE Done([db EXCEPT !.registrations[<<sid, cid>>] = @ + 1], 1)

\* INSERT OR IGNORE INTO registrations / student_courses (student_id, course_id)
\* PRIMARY KEY(student_id, course_id): a conflicting row is ignored (rowcount 0);
\* OR IGNORE does not cover a foreign-key violation, which raises.
InsertOrIgnoreRegistration(db, conn, sid, cid) ==
    IF db.registrations[<<sid, cid>>] > 0 THEN Done(db, 0)
    ELSE IF conn.foreign_keys /\ (sid \notin DOMAIN db.students \/ cid \notin DOMAIN db.courses)
    THEN Raised(db)
    ELSE Done([db EXCEPT !.registrations[<<sid, cid>>] = @ + 1], 1)

\* ------------------------------------------------------------ database.py
\* database.run(query, params, commit=True): the statement's cursor, or None
\* after an exception (printed, rolled back); the connection is closed either way.
run(r) == IF r.ok THEN [db |-> r.db, cur |-> "cursor"] ELSE [db |-> r.db, cur |-> NULL]

\* --------------------------------------------------------------- utils.py
\* Python's int() on the text of a form field or a JSON number
IntLiterals == [x \in {"20", "0", "-1"} |-> CASE x = "20" -> 20 [] x = "0" -> 0 [] x = "-1" -> 0 - 1]
\* utils.add_student / update_student: try: age = int(age) except: age = 0
IntOrZero(x) == IF x \in DOMAIN IntLiterals THEN IntLiterals[x] ELSE 0

\* one step of the program driving utils.py: the database after the call, the
\* call and its return value; the other implementations are not touched
UtilsStep(r, c) ==
    /\ impl = "utils"
    /\ before' = udb
    /\ udb' = r.db
    /\ ret' = Bool(r.cur # NULL)
    /\ call' = c
    /\ open_connections' = conn_close(open_connections)
    /\ UNCHANGED <<impl, ddb, objvars, guivars>>

utils_add_student(name, age, email, student_id) ==
    UtilsStep(run(InsertPerson(udb, Connect, "students", student_id, name, IntOrZero(age), email)),
              <<"utils.add_student", name, age, email, student_id>>)

utils_update_student(student_id, name, age, email) ==
    UtilsStep(run(UpdatePerson(udb, Connect, "students", student_id, name, IntOrZero(age), email)),
              <<"utils.update_student", student_id, name, age, email>>)

utils_delete_student(student_id) ==
    UtilsStep(run(DeleteStudentRow(udb, Connect, student_id)),
              <<"utils.delete_student", student_id>>)

utils_add_instructor(name, age, email, instructor_id) ==
    UtilsStep(run(InsertPerson(udb, Connect, "instructors", instructor_id, name, IntOrZero(age), email)),
              <<"utils.add_instructor", name, age, email, instructor_id>>)

utils_update_instructor(instructor_id, name, age, email) ==
    UtilsStep(run(UpdatePerson(udb, Connect, "instructors", instructor_id, name, IntOrZero(age), email)),
              <<"utils.update_instructor", instructor_id, name, age, email>>)

utils_delete_instructor(instructor_id) ==
    UtilsStep(run(DeleteInstructorRow(udb, Connect, instructor_id)),
              <<"utils.delete_instructor", instructor_id>>)

utils_add_course(course_id, course_name, instructor_id_or_none) ==
    UtilsStep(run(InsertCourse(udb, Connect, course_id, course_name, instructor_id_or_none)),
              <<"utils.add_course", course_id, course_name, instructor_id_or_none>>)

utils_update_course(course_id, course_name, instructor_id_or_none) ==
    UtilsStep(run(UpdateCourse(udb, Connect, course_id, course_name, instructor_id_or_none)),
              <<"utils.update_course", course_id, course_name, instructor_id_or_none>>)

utils_delete_course(course_id) ==
    UtilsStep(run(DeleteCourseRow(udb, Connect, course_id)),
              <<"utils.delete_course", course_id>>)

utils_register_student_to_course(student_id, course_id) ==
    UtilsStep(run(InsertOrIgnoreRegistration(udb, Connect, student_id, course_id)),
              <<"utils.register_student_to_course", student_id, course_id>>)

utils_unregister_student_from_course(student_id, course_id) ==
    UtilsStep(run(DeleteRegistrations(udb, {student_id}, {course_id})),
              <<"utils.unregister_student_from_course", student_id, course_id>>)

utils_assign_instructor_to_course(instructor_id, course_id) ==
    UtilsStep(run(SetInstructor(udb, Connect, course_id, instructor_id)),
              <<"utils.assign_instructor_to_course", instructor_id, course_id>>)

\* -------------------------------------------------------- database_pyqt.py
\* one step of the program driving DatabaseManager: `with self.get_connection()`
\* commits what the block did, or rolls it back when a statement raised
\* sqlite3.Error (the method then returns False)
DatabaseManagerStep(r, result, c) ==
    /\ impl = "DatabaseManager"
    /\ before' = ddb
    /\ ddb' = r.db
    /\ ret' = Bool(r.ok /\ result)
    /\ call' = c
    /\ open_connections' = sqlite3_connect(open_connections)
    /\ UNCHANGED <<impl, udb, objvars, guivars>>

\* two statements of one `with` block: the second runs on what the first left,
\* and an exception in either rolls both back
Then(db, first, second) == IF first.ok /\ second.ok THEN second ELSE Raised(db)

DatabaseManager_add_student(name, age, email, student_id) ==
    LET r == InsertPerson(ddb, get_connection, "students", student_id, name, age, email)
    IN  DatabaseManagerStep(r, TRUE, <<"DatabaseManager.add_student", name, age, email, student_id>>)

DatabaseManager_edit_student(name, age, email, student_id) ==
    LET r == UpdatePerson(ddb, get_connection, "students", student_id, name, age, email)
    IN  DatabaseManagerStep(r, r.rowcount > 0,
                            <<"DatabaseManager.edit_student", name, age, email, student_id>>)

DatabaseManager_delete_student(student_id) ==
    LET first == DeleteRegistrations(ddb, {student_id}, CourseIds)
        r == Then(ddb, first, DeleteStudentRow(first.db, get_connection, student_id))
    IN  DatabaseManagerStep(r, r.rowcount > 0, <<"DatabaseManager.delete_student", student_id>>)

DatabaseManager_add_instructor(name, age, email, instructor_id) ==
    LET r == InsertPerson(ddb, get_connection, "instructors", instructor_id, name, age, email)
    IN  DatabaseManagerStep(r, TRUE,
                            <<"DatabaseManager.add_instructor", name, age, email, instructor_id>>)

DatabaseManager_edit_instructor(name, age, email, instructor_id) ==
    LET r == UpdatePerson(ddb, get_connection, "instructors", instructor_id, name, age, email)
    IN  DatabaseManagerStep(r, r.rowcount > 0,
                            <<"DatabaseManager.edit_instructor", name, age, email, instructor_id>>)

DatabaseManager_delete_instructor(instructor_id) ==
    LET first == ClearInstructor(ddb, instructor_id)
        r == Then(ddb, first, DeleteInstructorRow(first.db, get_connection, instructor_id))
    IN  DatabaseManagerStep(r, r.rowcount > 0, <<"DatabaseManager.delete_instructor", instructor_id>>)

\* course.instructor is an Instructor object or None; only its instructor_id is stored
DatabaseManager_add_course(course_id, course_name, course_instructor) ==
    LET r == InsertCourse(ddb, get_connection, course_id, course_name, course_instructor)
    IN  DatabaseManagerStep(r, TRUE,
                            <<"DatabaseManager.add_course", course_id, course_name, course_instructor>>)

DatabaseManager_edit_course(course_id, course_name, course_instructor) ==
    LET r == UpdateCourse(ddb, get_connection, course_id, course_name, course_instructor)
    IN  DatabaseManagerStep(r, r.rowcount > 0,
                            <<"DatabaseManager.edit_course", course_id, course_name, course_instructor>>)

DatabaseManager_delete_course(course_id) ==
    LET first == DeleteRegistrations(ddb, StudentIds, {course_id})
        r == Then(ddb, first, DeleteCourseRow(first.db, get_connection, course_id))
    IN  DatabaseManagerStep(r, r.rowcount > 0, <<"DatabaseManager.delete_course", course_id>>)

DatabaseManager_register_student_in_course(student_id, course_id) ==
    LET r == InsertOrIgnoreRegistration(ddb, get_connection, student_id, course_id)
    IN  DatabaseManagerStep(r, r.rowcount > 0,
                            <<"DatabaseManager.register_student_in_course", student_id, course_id>>)

DatabaseManager_unregister_student_from_course(student_id, course_id) ==
    LET r == DeleteRegistrations(ddb, {student_id}, {course_id})
    IN  DatabaseManagerStep(r, r.rowcount > 0,
                            <<"DatabaseManager.unregister_student_from_course", student_id, course_id>>)

\* SELECT course_id FROM courses WHERE instructor_id = ? AND course_id != ?
existing_course(db, instructor_id, course_id) ==
    \E c \in DOMAIN db.courses : db.courses[c].instructor_id = instructor_id /\ c # course_id

\* SELECT instructor_id FROM courses WHERE course_id = ? AND instructor_id IS NOT NULL
existing_instructor(db, course_id) ==
    course_id \in DOMAIN db.courses /\ db.courses[course_id].instructor_id # NULL

DatabaseManager_assign_instructor_to_course(instructor_id, course_id) ==
    LET c == <<"DatabaseManager.assign_instructor_to_course", instructor_id, course_id>>
    IN  IF existing_course(ddb, instructor_id, course_id)
        THEN DatabaseManagerStep(Done(ddb, 0), FALSE, c)
        ELSE IF existing_instructor(ddb, course_id)
        THEN DatabaseManagerStep(Done(ddb, 0), FALSE, c)
        ELSE LET r == SetInstructor(ddb, get_connection, course_id, instructor_id)
             IN  DatabaseManagerStep(r, r.rowcount > 0, c)

DatabaseManager_unassign_instructor_from_course(course_id) ==
    LET r == SetInstructor(ddb, get_connection, course_id, NULL)
    IN  DatabaseManagerStep(r, r.rowcount > 0,
                            <<"DatabaseManager.unassign_instructor_from_course", course_id>>)

\* --------------------------------------------------------------- classes.py
\* Objects are compared by identity (no __eq__ is defined), so an object is
\* named by the id it was constructed with.  Student and Instructor objects
\* exist from the start; a Course object exists once Course.__init__ has run
\* (it is then in the domain of enrolled_students and instructor).
Contains(list, x) == \E n \in 1..Len(list) : list[n] = x
\* list.remove(x): drops the first occurrence (the caller has checked there is one)
Remove(list, x) ==
    LET first == CHOOSE n \in 1..Len(list) : list[n] = x /\ \A m \in 1..(n - 1) : list[m] # x
    IN  SubSeq(list, 1, first - 1) \o SubSeq(list, first + 1, Len(list))

\* the object graph as one value
Objects ==
    [registered_courses |-> registered_courses, enrolled_students |-> enrolled_students,
     instructor |-> instructor, assigned_courses |-> assigned_courses]

\* one step of the program driving the object graph
ClassesStep(result, c) ==
    /\ impl = "classes"
    /\ before' = Objects
    /\ ret' = result
    /\ call' = c
    /\ UNCHANGED <<impl, dbvars, guivars, open_connections>>

Course_init(course_id, course_instructor) ==
    /\ course_id \notin DOMAIN instructor
    /\ instructor' = Put(instructor, course_id, course_instructor)
    /\ enrolled_students' = Put(enrolled_students, course_id, << >>)
    /\ UNCHANGED <<registered_courses, assigned_courses>>
    /\ ClassesStep("None", <<"Course.__init__", course_id, course_instructor>>)

Student_register_course(self, course) ==
    /\ course \in DOMAIN instructor
    /\ IF ~Contains(registered_courses[self], course)
       THEN /\ registered_courses' = [registered_courses EXCEPT ![self] = Append(@, course)]
            /\ enrolled_students' = [enrolled_students EXCEPT ![course] = Append(@, self)]
       ELSE UNCHANGED <<registered_courses, enrolled_students>>
    /\ UNCHANGED <<instructor, assigned_courses>>
    /\ ClassesStep("None", <<"Student.register_course", self, course>>)

\* course.enrolled_students.remove(self) raises ValueError when self is not in
\* the list; registered_courses has already been changed by then
Student_unregister_course(self, course) ==
    /\ course \in DOMAIN instructor
    /\ UNCHANGED <<instructor, assigned_courses>>
    /\ IF Contains(registered_courses[self], course)
       THEN /\ registered_courses' = [registered_courses EXCEPT ![self] = Remove(@, course)]
            /\ IF Contains(enrolled_students[course], self)
               THEN /\ enrolled_students' = [enrolled_students EXCEPT ![course] = Remove(@, self)]
                    /\ ClassesStep("None", <<"Student.unregister_course", self, course>>)
               ELSE /\ UNCHANGED enrolled_students
                    /\ ClassesStep("ValueError", <<"Student.unregister_course", self, course>>)
       ELSE /\ UNCHANGED <<registered_courses, enrolled_students>>
            /\ ClassesStep("None", <<"Student.unregister_course", self, course>>)

Course_add_student(self, student) ==
    /\ self \in DOMAIN instructor
    /\ IF ~Contains(enrolled_students[self], student)
       THEN enrolled_students' = [enrolled_students EXCEPT ![self] = Append(@, student)]
       ELSE UNCHANGED enrolled_students
    /\ UNCHANGED <<registered_courses, instructor, assigned_courses>>
    /\ ClassesStep("None", <<"Course.add_student", self, student>>)

Instructor_assign_course(self, course) ==
    /\ course \in DOMAIN instructor
    /\ IF instructor[course] # NULL
       THEN UNCHANGED <<instructor, assigned_courses>>
       ELSE IF ~Contains(assigned_courses[self], course)
       THEN /\ assigned_courses' = [assigned_courses EXCEPT ![self] = Append(@, course)]
            /\ instructor' = [instructor EXCEPT ![course] = self]
       ELSE UNCHANGED <<instructor, assigned_courses>>
    /\ UNCHANGED <<registered_courses, enrolled_students>>
    /\ ClassesStep("None", <<"Instructor.assign_course", self, course>>)

Instructor_unassign_course(self, course) ==
    /\ course \in DOMAIN instructor
    /\ IF Contains(assigned_courses[self], course)
       THEN /\ assigned_courses' = [assigned_courses EXCEPT ![self] = Remove(@, course)]
            /\ instructor' = [instructor EXCEPT ![course] = NULL]
       ELSE UNCHANGED <<instructor, assigned_courses>>
    /\ UNCHANGED <<registered_courses, enrolled_students>>
    /\ ClassesStep("None", <<"Instructor.unassign_course", self, course>>)

\* the texts the forms and callers supply as an email, and which of them
\* match the pattern ^[a-zA-Z0-9._%+-]+@[a-zA-Z0-9.-]+\.[a-zA-Z]{2,}$
EmailTexts == {"ann@x.com", "ANN@x.com", "bob@x.com", "cy@x.com", "di@x.com",
               "ivy@x.com", "jo@x.com", "bad-email", ""}
email_pattern == EmailTexts \ {"bad-email", ""}

\* Person.valid_name / valid_age / valid_email and the id validator of the
\* subclass: the constructor raises ValueError unless all four pass
Person_valid_name(name) == name \notin {NULL, ""}
Person_valid_age(age) == age \in Int /\ age >= 0
Person_valid_email(email) == email \in email_pattern
Person_init(name, age, email, id) ==
    /\ Person_valid_name(name)
    /\ Person_valid_age(age)
    /\ Person_valid_email(email)
    /\ id \notin {NULL, ""}

\* ------------------------------------------------------------------ reads
\* what a read returns: a value, None when there is no such row, or the
\* exception it lets through
Returned(v) == [exc |-> "None", found |-> TRUE, value |-> v]
ReturnedNone == [exc |-> "None", found |-> FALSE, value |-> NULL]
Raises(e) == [exc |-> e, found |-> FALSE, value |-> NULL]

utils_get_student(db, student_id) ==
    IF student_id \notin DOMAIN db.students THEN ReturnedNone
    ELSE LET row == db.students[student_id]
         IN  Returned([student_id |-> student_id, name |-> row.name,
                       age |-> row.age, email |-> row.email])

utils_get_instructor(db, instructor_id) ==
    IF instructor_id \notin DOMAIN db.instructors THEN ReturnedNone
    ELSE LET row == db.instructors[instructor_id]
         IN  Returned([instructor_id |-> instructor_id, name |-> row.name,
                       age |-> row.age, email |-> row.email])

utils_get_course(db, course_id) ==
    IF course_id \notin DOMAIN db.courses THEN ReturnedNone
    ELSE LET row == db.courses[course_id]
         IN  Returned([course_id |-> course_id, course_name |-> row.course_name,
                       instructor_id |-> row.instructor_id])

\* the relationship lists, as the sets of ids they hold
utils_student_courses(db, student_id) ==
    {c \in CourseIds : db.registrations[<<student_id, c>>] > 0}
utils_instructor_courses(db, instructor_id) ==
    {c \in DOMAIN db.courses : db.courses[c].instructor_id = instructor_id}
\* FROM registrations r JOIN students s
utils_course_students(db, course_id) ==
    {s \in StudentIds \cap DOMAIN db.students : db.registrations[<<s, course_id>>] > 0}

\* FROM courses c LEFT JOIN instructors i JOIN student_courses sc: each row
\* becomes Course(.., Instructor(i.name, ..)), and Instructor raises ValueError
\* on the NULLs the LEFT JOIN gives for an instructor_id no instructor has
DatabaseManager_get_student_courses(db, student_id) ==
    LET rows == {c \in DOMAIN db.courses : db.registrations[<<student_id, c>>] > 0}
    IN  IF \E c \in rows : db.courses[c].instructor_id \notin {NULL} \cup DOMAIN db.instructors
        THEN Raises("ValueError")
        ELSE Returned(rows)

DatabaseManager_get_instructor_courses(db, instructor_id) ==
    Returned({c \in DOMAIN db.courses : db.courses[c].instructor_id = instructor_id})

\* FROM students s JOIN student_courses sc
DatabaseManager_get_course_students(db, course_id) ==
    LET rows == {s \in StudentIds \cap DOMAIN db.students : db.registrations[<<s, course_id>>] > 0}
    IN  IF \E s \in rows : ~Person_init(db.students[s].name, db.students[s].age,
                                        db.students[s].email, s)
        THEN Raises("ValueError")
        ELSE Returned(rows)

DatabaseManager_get_student(db, student_id) ==
    IF student_id \notin DOMAIN db.students THEN ReturnedNone
    ELSE LET row == db.students[student_id]
             courses == DatabaseManager_get_student_courses(db, student_id)
         IN  IF ~Person_init(row.name, row.age, row.email, student_id) THEN Raises("ValueError")
             ELSE IF courses.exc # "None" THEN courses
             ELSE Returned([student_id |-> student_id, name |-> row.name, age |-> row.age,
                            email |-> row.email, registered_courses |-> courses.value])

DatabaseManager_get_instructor(db, instructor_id) ==
    IF instructor_id \notin DOMAIN db.instructors THEN ReturnedNone
    ELSE LET row == db.instructors[instructor_id]
             courses == DatabaseManager_get_instructor_courses(db, instructor_id)
         IN  IF ~Person_init(row.name, row.age, row.email, instructor_id) THEN Raises("ValueError")
             ELSE Returned([instructor_id |-> instructor_id, name |-> row.name, age |-> row.age,
                            email |-> row.email, assigned_courses |-> courses.value])

DatabaseManager_get_course(db, course_id) ==
    IF course_id \notin DOMAIN db.courses THEN ReturnedNone
    ELSE LET row == db.courses[course_id]
             students == DatabaseManager_get_course_students(db, course_id)
         IN  IF row.instructor_id \notin {NULL} \cup DOMAIN db.instructors THEN Raises("ValueError")
             ELSE IF students.exc # "None" THEN students
             ELSE Returned([course_id |-> course_id, course_name |-> row.course_name,
                            instructor |-> row.instructor_id,
                            enrolled_students |-> students.value])

\* ---------------------------------------------------------- specification
Init ==
    /\ impl \in Impls
    /\ udb = EmptyDb
    /\ ddb = EmptyDb
    /\ registered_courses = [s \in StudentIds |-> << >>]
    /\ assigned_courses = [i \in InstructorIds |-> << >>]
    /\ enrolled_students = << >>
    /\ instructor = << >>
    /\ call = <<"__init__">>
    /\ ret = "None"
    /\ before = IF impl = "classes" THEN Objects ELSE EmptyDb
    /\ selected_student_id = NULL
    /\ selected_course_id = NULL
    /\ open_connections = IF impl = "DatabaseManager" THEN sqlite3_connect("none") ELSE "none"

\* the field values each id is created and updated with
PersonName == "Ann"
AgeText == "20"
Age == IntLiterals[AgeText]
InstructorOrNone == InstructorIds \cup {NULL}

Next ==
    \/ \E n \in 1..NumStudents :
          \/ utils_add_student(PersonName, AgeText, StudentEmailPool[n], StudentIdPool[n])
          \/ utils_update_student(StudentIdPool[n], PersonName, AgeText, StudentEmailPool[n])
          \/ utils_delete_student(StudentIdPool[n])
          \/ DatabaseManager_add_student(PersonName, Age, StudentEmailPool[n], StudentIdPool[n])
          \/ DatabaseManager_edit_student(PersonName, Age, StudentEmailPool[n], StudentIdPool[n])
          \/ DatabaseManager_delete_student(StudentIdPool[n])
    \/ \E i \in InstructorIds :
          \/ utils_add_instructor(PersonName, AgeText, InstructorEmail[i], i)
          \/ utils_update_instructor(i, PersonName, AgeText, InstructorEmail[i])
          \/ utils_delete_instructor(i)
          \/ DatabaseManager_add_instructor(PersonName, Age, InstructorEmail[i], i)
          \/ DatabaseManager_edit_instructor(PersonName, Age, InstructorEmail[i], i)
          \/ DatabaseManager_delete_instructor(i)
    \/ \E c \in CourseIds, i \in InstructorOrNone :
          \/ utils_add_course(c, CourseName[c], i)
          \/ utils_update_course(c, CourseName[c], i)
          \/ DatabaseManager_add_course(c, CourseName[c], i)
          \/ DatabaseManager_edit_course(c, CourseName[c], i)
          \/ Course_init(c, i)
    \/ \E c \in CourseIds :
          \/ utils_delete_course(c)
          \/ DatabaseManager_delete_course(c)
          \/ DatabaseManager_unassign_instructor_from_course(c)
    \/ \E s \in StudentIds, c \in CourseIds :
          \/ utils_register_student_to_course(s, c)
          \/ utils_unregister_student_from_course(s, c)
          \/ DatabaseManager_register_student_in_course(s, c)
          \/ DatabaseManager_unregister_student_from_course(s, c)
          \/ Student_register_course(s, c)
          \/ Student_unregister_course(s, c)
          \/ Course_add_student(c, s)
    \/ \E i \in InstructorIds, c \in CourseIds :
          \/ utils_assign_instructor_to_course(i, c)
          \/ DatabaseManager_assign_instructor_to_course(i, c)
          \/ Instructor_assign_course(i, c)
          \/ Instructor_unassign_course(i, c)

Spec == Init /\ [][Next]_vars

\* ---------------------------------------------------------------- the forms
\* The student and course forms of the two GUIs, and utils called directly,
\* driven with valid and invalid field texts.  Two student ids, so that two
\* rows can collide; no form creates an instructor here, so the instructor
\* dropdowns only offer "no instructor".
FormStudentIds == {"S1", "S2"}
FormEmail == [s \in FormStudentIds \cup {""} |-> IF s = "S2" THEN "bob@x.com" ELSE "ann@x.com"]

\* the texts of a student form (after .strip()): those of a valid student with
\* at most one field replaced by a blank name, a non-integer or negative age,
\* another email (differing from S1's only in case) or a malformed one, a blank id
AllStudentForms ==
    [name : {"Ann", ""}, age : {"20", "x", "-1"},
     email : {"ann@x.com", "bob@x.com", "ANN@x.com", "bad-email"},
     student_id : FormStudentIds \cup {""}]
Deviations(f) ==
    {d \in {"name", "age", "email", "student_id"} :
        \/ d = "name" /\ f.name # "Ann"
        \/ d = "age" /\ f.age # "20"
        \/ d = "email" /\ f.email # FormEmail[f.student_id]
        \/ d = "student_id" /\ f.student_id = ""}
StudentForms == {f \in AllStudentForms : Cardinality(Deviations(f)) <= 1}

\* the texts of a course form: a course id or blank, a course name or blank
CourseForms ==
    {f \in [course_id : CourseIds \cup {""}, course_name : {"Algo", "Nets", ""}] :
        f.course_id # "" \/ f.course_name # ""}

\* utils.valid_age: int(x) >= 0, False when int() raises
utils_valid_age(x) == x \in DOMAIN IntLiterals /\ IntLiterals[x] >= 0
\* utils.valid_email: the texts matching ^[^@\s]+@[^@\s]+\.[^@\s]+$
utils_valid_email(x) == x \in EmailTexts \ {"bad-email", ""}
\* SQLite's lower() on the texts used as emails
lower == [e \in EmailTexts |-> IF e = "ANN@x.com" THEN "ann@x.com" ELSE e]

\* SELECT 1 FROM students WHERE lower(email)=lower(?) [AND student_id<>?]
student_email_exists(db, email, exclude_id) ==
    \E k \in DOMAIN db.students :
        /\ lower[db.students[k].email] = lower[email]
        /\ (exclude_id \in {NULL, ""} \/ k # exclude_id)

\* one step of a tkinter handler: it returns None whatever it did
TkinterStep(db, c) ==
    /\ impl = "utils"
    /\ before' = udb
    /\ udb' = db
    /\ ret' = "None"
    /\ call' = c
    /\ open_connections' = conn_close(open_connections)
    /\ UNCHANGED <<impl, ddb, objvars>>

students_on_select(sid) ==
    /\ sid \in DOMAIN udb.students
    /\ sid # ""
    /\ selected_student_id' = sid
    /\ UNCHANGED selected_course_id
    /\ TkinterStep(udb, <<"tkinter.students_on_select", sid>>)

courses_on_select(cid) ==
    /\ cid \in DOMAIN udb.courses
    /\ selected_course_id' = cid
    /\ UNCHANGED selected_student_id
    /\ TkinterStep(udb, <<"tkinter.courses_on_select", cid>>)

clear_student_form ==
    /\ selected_student_id' = NULL
    /\ UNCHANGED selected_course_id
    /\ TkinterStep(udb, <<"tkinter.clear_student_form">>)

clear_course_form ==
    /\ selected_course_id' = NULL
    /\ UNCHANGED selected_student_id
    /\ TkinterStep(udb, <<"tkinter.clear_course_form">>)

\* what a save handler did: it showed a message and returned early, or it
\* went on after the repository call `ok` (to the message for ok = False, or
\* to the refresh and clear_*_form at its end)
EarlyReturn == [saved |-> FALSE, db |-> udb]
AfterCall(ok) == IF ok.cur = NULL THEN EarlyReturn ELSE [saved |-> TRUE, db |-> ok.db]

SavedStudent(name, age, email, sid) ==
    IF name = "" \/ sid = "" THEN EarlyReturn
    ELSE IF ~utils_valid_age(age) THEN EarlyReturn
    ELSE IF ~utils_valid_email(email) THEN EarlyReturn
    ELSE IF selected_student_id = NULL
    THEN IF student_email_exists(udb, email, NULL) THEN EarlyReturn
         ELSE LET ok == run(InsertPerson(udb, Connect, "students", sid, name, IntOrZero(age), email))
              IN  AfterCall(ok)
    ELSE IF sid # selected_student_id THEN EarlyReturn
    ELSE IF student_email_exists(udb, email, selected_student_id) THEN EarlyReturn
    ELSE IF ~utils_get_student(udb, selected_student_id).found THEN EarlyReturn
    ELSE LET ok == run(UpdatePerson(udb, Connect, "students", selected_student_id,
                                    name, IntOrZero(age), email))
         IN  AfterCall(ok)

add_or_save_student(name, age, email, sid) ==
    LET saved == SavedStudent(name, age, email, sid)
        c == <<"tkinter.add_or_save_student", selected_student_id, name, age, email, sid>>
    IN  /\ UNCHANGED selected_course_id
        /\ IF ~saved.saved
           THEN UNCHANGED selected_student_id /\ TkinterStep(udb, c)
           ELSE selected_student_id' = NULL /\ TkinterStep(saved.db, c)

\* inst_id is the dropdown's text ("" for none)
SavedCourse(name, cid, inst_id) ==
    LET inst == IF inst_id # "" THEN utils_get_instructor(udb, inst_id).found ELSE FALSE
        instructor_id_or_none == IF inst THEN inst_id ELSE NULL
    IN  IF name = "" \/ cid = "" THEN EarlyReturn
        ELSE IF selected_course_id = NULL
        THEN LET ok == run(InsertCourse(udb, Connect, cid, name, instructor_id_or_none))
             IN  AfterCall(ok)
        ELSE IF ~utils_get_course(udb, selected_course_id).found THEN EarlyReturn
        ELSE IF cid # selected_course_id THEN EarlyReturn
        ELSE LET ok == run(UpdateCourse(udb, Connect, selected_course_id, name,
                                        instructor_id_or_none))
             IN  AfterCall(ok)

add_or_save_course(name, cid, inst_id) ==
    LET saved == SavedCourse(name, cid, inst_id)
        c == <<"tkinter.add_or_save_course", selected_course_id, name, cid, inst_id>>
    IN  /\ UNCHANGED selected_student_id
        /\ IF ~saved.saved
           THEN UNCHANGED selected_course_id /\ TkinterStep(udb, c)
           ELSE selected_course_id' = NULL /\ TkinterStep(saved.db, c)

\* one step of a PyQt handler: it returns None whatever it did
PyQtStep(db, c) ==
    /\ impl = "DatabaseManager"
    /\ before' = ddb
    /\ ddb' = db
    /\ ret' = "None"
    /\ call' = c
    /\ UNCHANGED <<impl, udb, objvars>>

\* a handler that showed err(...) before it called self.db, and changed nothing
PyQtInvalid(c) == UNCHANGED <<guivars, open_connections>> /\ PyQtStep(ddb, c)
\* a handler that showed err(...) after a call of self.db that changed nothing
PyQtError(c) ==
    /\ UNCHANGED guivars
    /\ open_connections' = sqlite3_connect(open_connections)
    /\ PyQtStep(ddb, c)
\* a handler whose repository call returned True: on_any_change is
\* MainWindow.refresh_all, which refills every table (the selected rows are gone)
PyQtDone(db, c) ==
    /\ selected_student_id' = NULL
    /\ selected_course_id' = NULL
    /\ open_connections' = sqlite3_connect(open_connections)
    /\ PyQtStep(db, c)

\* the row clicked in the table is copied into the form; the id field stays editable
StudentsTab_on_row_clicked(sid) ==
    /\ sid \in DOMAIN ddb.students
    /\ selected_student_id' = sid
    /\ UNCHANGED <<selected_course_id, open_connections>>
    /\ PyQtStep(ddb, <<"StudentsTab._on_row_clicked", sid>>)

CoursesTab_on_row_clicked(cid) ==
    /\ cid \in DOMAIN ddb.courses
    /\ selected_course_id' = cid
    /\ UNCHANGED <<selected_student_id, open_connections>>
    /\ PyQtStep(ddb, <<"CoursesTab._on_row_clicked", cid>>)

StudentsTab_clear ==
    /\ selected_student_id' = NULL
    /\ UNCHANGED <<selected_course_id, open_connections>>
    /\ PyQtStep(ddb, <<"StudentsTab._clear">>)

CoursesTab_clear ==
    /\ selected_course_id' = NULL
    /\ UNCHANGED <<selected_student_id, open_connections>>
    /\ PyQtStep(ddb, <<"CoursesTab._clear">>)

\* Student(name=..., age=int(self.s_age.text()), email=..., student_id=...):
\* int() or one of the validators raises ValueError
Student_init(name, age, email, student_id) ==
    /\ age \in DOMAIN IntLiterals
    /\ Person_init(name, IntLiterals[age], email, student_id)

StudentsTab_create(name, age, email, student_id) ==
    LET c == <<"StudentsTab._create", selected_student_id, name, age, email, student_id>>
    IN  IF ~Student_init(name, age, email, student_id) THEN PyQtInvalid(c)
        ELSE LET r == InsertPerson(ddb, get_connection, "students", student_id, name,
                                   IntLiterals[age], email)
             IN  IF r.ok THEN PyQtDone(r.db, c) ELSE PyQtError(c)

StudentsTab_update(name, age, email, student_id) ==
    LET c == <<"StudentsTab._update", selected_student_id, name, age, email, student_id>>
    IN  IF ~Student_init(name, age, email, student_id) THEN PyQtInvalid(c)
        ELSE LET r == UpdatePerson(ddb, get_connection, "students", student_id, name,
                                   IntLiterals[age], email)
             IN  IF r.ok /\ r.rowcount > 0 THEN PyQtDone(r.db, c) ELSE PyQtError(c)

\* DatabaseManager.all_courses builds Instructor(i.name, ...) from a LEFT JOIN:
\* ValueError for an instructor_id no instructor has
all_courses_raises(db) ==
    \E c \in DOMAIN db.courses : db.courses[c].instructor_id \notin {NULL} \cup DOMAIN db.instructors

\* Course(course_id=cid, course_name=cname, instructor=...): ValueError on a blank
Course_valid(cid, cname) == cid \notin {NULL, ""} /\ cname \notin {NULL, ""}

\* iid is the dropdown's data (None for "none")
CoursesTab_create(cid, cname, iid) ==
    LET c == <<"CoursesTab._create", selected_course_id, cid, cname, iid>>
    IN  IF iid # NULL /\ (all_courses_raises(ddb) \/ utils_instructor_courses(ddb, iid) # {})
        THEN PyQtError(c)
        ELSE IF ~Course_valid(cid, cname) THEN (IF iid = NULL THEN PyQtInvalid(c) ELSE PyQtError(c))
        ELSE LET r == InsertCourse(ddb, get_connection, cid, cname, iid)
             IN  IF r.ok THEN PyQtDone(r.db, c) ELSE PyQtError(c)

CoursesTab_update(cid, cname, iid) ==
    LET c == <<"CoursesTab._update", selected_course_id, cid, cname, iid>>
    IN  IF iid # NULL /\ (all_courses_raises(ddb) \/ existing_course(ddb, iid, cid))
        THEN PyQtError(c)
        ELSE IF ~Course_valid(cid, cname) THEN (IF iid = NULL THEN PyQtInvalid(c) ELSE PyQtError(c))
        ELSE LET r == UpdateCourse(ddb, get_connection, cid, cname, iid)
             IN  IF r.ok /\ r.rowcount > 0 THEN PyQtDone(r.db, c) ELSE PyQtError(c)

\* the program with its forms: tkinter-ui.py over utils, PyQt.py over DatabaseManager
FormInit == Init /\ impl \in {"utils", "DatabaseManager"}

FormNext ==
    \/ \E f \in StudentForms :
          \/ utils_add_student(f.name, f.age, f.email, f.student_id)
          \/ utils_update_student(f.student_id, f.name, f.age, f.email)
          \/ add_or_save_student(f.name, f.age, f.email, f.student_id)
          \/ StudentsTab_create(f.name, f.age, f.email, f.student_id)
          \/ StudentsTab_update(f.name, f.age, f.email, f.student_id)
    \/ \E s \in FormStudentIds :
          \/ students_on_select(s)
          \/ StudentsTab_on_row_clicked(s)
    \/ \E f \in CourseForms :
          \/ \E inst_id \in {""} \cup DOMAIN udb.instructors :
                add_or_save_course(f.course_name, f.course_id, inst_id)
          \/ \E iid \in {NULL} \cup DOMAIN ddb.instructors :
                \/ CoursesTab_create(f.course_id, f.course_name, iid)
                \/ CoursesTab_update(f.course_id, f.course_name, iid)
    \/ \E c \in CourseIds :
          \/ courses_on_select(c)
          \/ CoursesTab_on_row_clicked(c)
    \/ clear_student_form
    \/ clear_course_form
    \/ StudentsTab_clear
    \/ CoursesTab_clear

FormSpec == FormInit /\ [][FormNext]_vars

\* ------------------------------------------------------------------ claims
\* the database of the repository the program drives
Db == IF impl = "utils" THEN udb ELSE ddb
Databases == {udb, ddb}

EnrollCalls == {"utils.register_student_to_course", "DatabaseManager.register_student_in_course"}
AssignCalls == {"utils.assign_instructor_to_course", "DatabaseManager.assign_instructor_to_course"}
DeleteStudentCalls == {"utils.delete_student", "DatabaseManager.delete_student"}
DeleteInstructorCalls == {"utils.delete_instructor", "DatabaseManager.delete_instructor"}

\* the instructor reference of a course as read(course) shows it
InstructorOf(db, c) == IF c \in DOMAIN db.courses THEN db.courses[c].instructor_id ELSE "no such course"
\* how often x occurs in a Python list
Count(list, x) == Cardinality({n \in 1..Len(list) : list[n] = x})

\* C1: in every reachable state of either repository, every enrollment row
\* names a student that exists and a course that exists.
C1_NoDanglingEnrollment ==
    \A db \in Databases : \A p \in Pairs :
        db.registrations[p] > 0 => p[1] \in DOMAIN db.students /\ p[2] \in DOMAIN db.courses

\* C2: in every reachable state of either repository, each instructor is the
\* instructor_id of at most one course.
C2_InstructorInAtMostOneCourse ==
    \A db \in Databases : \A i \in InstructorIds :
        Cardinality({c \in DOMAIN db.courses : db.courses[c].instructor_id = i}) <= 1

\* C3: when instructor I was assigned to course C1, assign_instructor(I, C2)
\* with C2 # C1 returned False and left the instructor references of C1 and C2
\* as they were (utils and DatabaseManager).
C3_AssignElsewhereFails ==
    call[1] \in AssignCalls =>
        \A c1 \in CourseIds \ {call[3]} :
            (c1 \in DOMAIN before.courses /\ before.courses[c1].instructor_id = call[2])
            => /\ ret = "False"
               /\ InstructorOf(Db, c1) = InstructorOf(before, c1)
               /\ InstructorOf(Db, call[3]) = InstructorOf(before, call[3])

\* C4: when the course was Assigned(x), assign_instructor(y, course) with y # x
\* was rejected and the course is still Assigned(x) (utils, DatabaseManager and
\* Instructor.assign_course).
C4_AssignedSlotRejectsOther ==
    /\ (/\ call[1] \in AssignCalls
        /\ call[3] \in DOMAIN before.courses
        /\ before.courses[call[3]].instructor_id \notin {NULL, call[2]})
       => /\ ret = "False"
          /\ InstructorOf(Db, call[3]) = InstructorOf(before, call[3])
    /\ (/\ call[1] = "Instructor.assign_course"
        /\ before.instructor[call[3]] \notin {NULL, call[2]})
       => instructor[call[3]] = before.instructor[call[3]]

\* C5: when course C already had instructor I, assign_instructor(I, C) returned
\* True and left the database unchanged (utils and DatabaseManager).
C5_AssignSamePairSucceeds ==
    (/\ call[1] \in AssignCalls
     /\ call[3] \in DOMAIN before.courses
     /\ before.courses[call[3]].instructor_id = call[2])
    => ret = "True" /\ Db = before

C7_SecondEnrollSucceeds ==
    (/\ call[1] \in EnrollCalls
     /\ call[2] \in DOMAIN before.students
     /\ call[3] \in DOMAIN before.courses
     /\ before.registrations[<<call[2], call[3]>>] >= 1)
    => ret = "True"

\* C8: an enroll naming a student or a course that did not exist returned
\* False and left the enrollment relation unchanged (utils and DatabaseManager).
C8_EnrollUnknownFails ==
    (/\ call[1] \in EnrollCalls
     /\ (call[2] \notin DOMAIN before.students \/ call[3] \notin DOMAIN before.courses))
    => ret = "False" /\ Db.registrations = before.registrations

\* C9: after delete_student(S) returned True no enrollment row names S, and
\* every course S was enrolled in is still there (utils and DatabaseManager).
C9_DeleteStudentCascades ==
    (call[1] \in DeleteStudentCalls /\ ret = "True") =>
        \A c \in CourseIds :
            /\ Db.registrations[<<call[2], c>>] = 0
            /\ (before.registrations[<<call[2], c>>] > 0 /\ c \in DOMAIN before.courses)
               => (c \in DOMAIN Db.courses /\ Db.courses[c] = before.courses[c])

\* C9 witness: a successful delete of a student who was enrolled in a course
C9_EnrolledStudentDeleted ==
    /\ call[1] \in DeleteStudentCalls
    /\ ret = "True"
    /\ call[2] \in DOMAIN before.students
    /\ call[2] \notin DOMAIN Db.students
    /\ \E c \in DOMAIN before.courses : before.registrations[<<call[2], c>>] > 0

\* C10: after delete_instructor(I) returned True every course that referenced I
\* is still there with a NULL instructor_id and its course_name, and the
\* enrollment rows are as they were (utils and DatabaseManager).
C10_DeleteInstructorClearsCourses ==
    (call[1] \in DeleteInstructorCalls /\ ret = "True") =>
        /\ Db.registrations = before.registrations
        /\ \A c \in DOMAIN before.courses :
               before.courses[c].instructor_id = call[2]
               => /\ c \in DOMAIN Db.courses
                  /\ Db.courses[c].instructor_id = NULL
                  /\ Db.courses[c].course_name = before.courses[c].course_name

\* C10 witness: a successful delete of an instructor a course referenced,
\* with a student enrolled in that course
C10_AssignedInstructorDeleted ==
    /\ call[1] \in DeleteInstructorCalls
    /\ ret = "True"
    /\ call[2] \in DOMAIN before.instructors
    /\ call[2] \notin DOMAIN Db.instructors
    /\ \E c \in DOMAIN before.courses :
           /\ before.courses[c].instructor_id = call[2]
           /\ \E s \in StudentIds : before.registrations[<<s, c>>] > 0
DeleteCourseCalls == {"utils.delete_course", "DatabaseManager.delete_course"}
UnenrollCalls == {"utils.unregister_student_from_course",
                  "DatabaseManager.unregister_student_from_course"}

\* C11: after delete_course(C) returned True no enrollment row names C and C
\* is no longer a course (so nothing is linked through it); every student that
\* was enrolled in C and the instructor that was assigned to C are still there,
\* with the rows they had (utils and DatabaseManager).
C11_DeleteCourseCascades ==
    (call[1] \in DeleteCourseCalls /\ ret = "True") =>
        /\ call[2] \notin DOMAIN Db.courses
        /\ \A s \in StudentIds : Db.registrations[<<s, call[2]>>] = 0
        /\ \A s \in DOMAIN before.students :
               before.registrations[<<s, call[2]>>] > 0
               => (s \in DOMAIN Db.students /\ Db.students[s] = before.students[s])
        /\ \A i \in DOMAIN before.instructors :
               InstructorOf(before, call[2]) = i
               => (i \in DOMAIN Db.instructors /\ Db.instructors[i] = before.instructors[i])

\* C11 witness: a successful delete of a course that had an enrolled student
\* and an assigned instructor, both existing
C11_TaughtCourseDeleted ==
    /\ call[1] \in DeleteCourseCalls
    /\ ret = "True"
    /\ call[2] \in DOMAIN before.courses
    /\ call[2] \notin DOMAIN Db.courses
    /\ \E s \in DOMAIN before.students : before.registrations[<<s, call[2]>>] > 0
    /\ before.courses[call[2]].instructor_id \in DOMAIN before.instructors

\* C12: in every reachable state of either repository every course's
\* instructor_id is NULL or the id of an existing instructor, and an
\* assign_instructor naming an instructor or a course that did not exist
\* returned False and left the courses as they were (utils and DatabaseManager).
C12_InstructorRefsExist ==
    /\ \A db \in Databases : \A c \in DOMAIN db.courses :
           db.courses[c].instructor_id \in {NULL} \cup DOMAIN db.instructors
    /\ (/\ call[1] \in AssignCalls
        /\ (call[2] \notin DOMAIN before.instructors \/ call[3] \notin DOMAIN before.courses))
       => ret = "False" /\ Db.courses = before.courses

\* C13: unassign_instructor on an existing course leaves its instructor
\* reference absent and everything else as it was, and changes nothing when the
\* reference was absent already (DatabaseManager.unassign_instructor_from_course;
\* Instructor.unassign_course called on the instructor the course references,
\* or on any instructor when it references none).
C13_UnassignClears ==
    /\ (/\ call[1] = "DatabaseManager.unassign_instructor_from_course"
        /\ call[2] \in DOMAIN before.courses)
       => /\ Db = [before EXCEPT !.courses[call[2]].instructor_id = NULL]
          /\ (before.courses[call[2]].instructor_id = NULL => Db = before)
    /\ (/\ call[1] = "Instructor.unassign_course"
        /\ before.instructor[call[3]] \in {NULL, call[2]})
       => /\ instructor[call[3]] = NULL
          /\ \A c \in (DOMAIN instructor) \ {call[3]} : instructor[c] = before.instructor[c]
          /\ registered_courses = before.registered_courses
          /\ enrolled_students = before.enrolled_students
          /\ (before.instructor[call[3]] = NULL => Objects = before)

\* C14: unenroll of a pair that was not enrolled returned False and left the
\* database as it was; unenroll of an enrolled pair removed exactly that pair
\* (utils and DatabaseManager).
C14_UnenrollAbsentFails ==
    call[1] \in UnenrollCalls =>
        /\ before.registrations[<<call[2], call[3]>>] = 0
           => (ret = "False" /\ Db = before)
        /\ before.registrations[<<call[2], call[3]>>] > 0
           => Db = [before EXCEPT !.registrations[<<call[2], call[3]>>] = 0]

\* the table a delete call works on
DeletedTable ==
    [n \in DeleteStudentCalls \cup DeleteInstructorCalls \cup DeleteCourseCalls |->
        IF n \in DeleteStudentCalls THEN "students"
        ELSE IF n \in DeleteInstructorCalls THEN "instructors" ELSE "courses"]

\* C19: a delete of a student, instructor or course id that did not exist
\* returned False and left the database as it was (utils and DatabaseManager).
C19_DeleteAbsentFails ==
    (/\ call[1] \in DOMAIN DeletedTable
     /\ call[2] \notin DOMAIN before[DeletedTable[call[1]]])
    => ret = "False" /\ Db = before

AddStudentCalls == {"utils.add_student", "DatabaseManager.add_student"}
AddInstructorCalls == {"utils.add_instructor", "DatabaseManager.add_instructor"}
AddCourseCalls == {"utils.add_course", "DatabaseManager.add_course"}

\* C16: a create whose id already existed in its table returned False and left
\* the database (the record with that id, the enrollment rows, the instructor
\* references) as it was (add_student, add_instructor, add_course of utils and
\* DatabaseManager).
C16_DuplicateIdFails ==
    /\ (call[1] \in AddStudentCalls /\ call[5] \in DOMAIN before.students)
       => (ret = "False" /\ Db = before)
    /\ (call[1] \in AddInstructorCalls /\ call[5] \in DOMAIN before.instructors)
       => (ret = "False" /\ Db = before)
    /\ (call[1] \in AddCourseCalls /\ call[2] \in DOMAIN before.courses)
       => (ret = "False" /\ Db = before)

\* C16 witness: a create of a student id that existed and was enrolled in a
\* course whose instructor was assigned, which returned False
C16_DuplicateStudentRejected ==
    /\ call[1] \in AddStudentCalls
    /\ call[5] \in DOMAIN before.students
    /\ ret = "False"
    /\ \E c \in DOMAIN before.courses :
           /\ before.registrations[<<call[5], c>>] > 0
           /\ before.courses[c].instructor_id # NULL

\* C20: after a create of a student, instructor or course with a fresh id
\* returned True (a course naming no instructor or an existing one), the read of
\* that id returns the id, name, age and email (course_name and instructor)
\* that were supplied, and the relationship lists of the new entity are empty
\* (utils and DatabaseManager).
C20_CreateReadRoundTrip ==
    /\ (call[1] = "utils.add_student" /\ ret = "True" /\ call[5] \notin DOMAIN before.students)
       => /\ utils_get_student(Db, call[5]) =
                Returned([student_id |-> call[5], name |-> call[2],
                          age |-> IntLiterals[call[3]], email |-> call[4]])
          /\ utils_student_courses(Db, call[5]) = {}
    /\ (call[1] = "utils.add_instructor" /\ ret = "True" /\ call[5] \notin DOMAIN before.instructors)
       => /\ utils_get_instructor(Db, call[5]) =
                Returned([instructor_id |-> call[5], name |-> call[2],
                          age |-> IntLiterals[call[3]], email |-> call[4]])
          /\ utils_instructor_courses(Db, call[5]) = {}
    /\ (/\ call[1] = "utils.add_course" /\ ret = "True" /\ call[2] \notin DOMAIN before.courses
        /\ call[4] \in {NULL} \cup DOMAIN before.instructors)
       => /\ utils_get_course(Db, call[2]) =
                Returned([course_id |-> call[2], course_name |-> call[3],
                          instructor_id |-> call[4]])
          /\ utils_course_students(Db, call[2]) = {}
    /\ (/\ call[1] = "DatabaseManager.add_student" /\ ret = "True"
        /\ call[5] \notin DOMAIN before.students)
       => DatabaseManager_get_student(Db, call[5]) =
             Returned([student_id |-> call[5], name |-> call[2], age |-> call[3],
                       email |-> call[4], registered_courses |-> {}])
    /\ (/\ call[1] = "DatabaseManager.add_instructor" /\ ret = "True"
        /\ call[5] \notin DOMAIN before.instructors)
       => DatabaseManager_get_instructor(Db, call[5]) =
             Returned([instructor_id |-> call[5], name |-> call[2], age |-> call[3],
                       email |-> call[4], assigned_courses |-> {}])
    /\ (/\ call[1] = "DatabaseManager.add_course" /\ ret = "True"
        /\ call[2] \notin DOMAIN before.courses
        /\ call[4] \in {NULL} \cup DOMAIN before.instructors)
       => DatabaseManager_get_course(Db, call[2]) =
             Returned([course_id |-> call[2], course_name |-> call[3],
                       instructor |-> call[4], enrolled_students |-> {}])

\* C15: in every reachable state no two students (and no two instructors) have
\* emails that are equal ignoring case, and a create or update whose email
\* collides with another row's, ignoring case, left the database as it was
\* (utils.add_student / update_student, the tkinter form, the PyQt form).
C15_EmailsUniqueIgnoringCase ==
    /\ \A db \in Databases : \A table \in {"students", "instructors"} :
           \A a, b \in DOMAIN db[table] :
               a # b => lower[db[table][a].email] # lower[db[table][b].email]
    /\ (call[1] = "utils.add_student" /\ student_email_exists(before, call[4], NULL))
       => (ret = "False" /\ Db = before)
    /\ (call[1] = "utils.update_student" /\ student_email_exists(before, call[5], call[2]))
       => (ret = "False" /\ Db = before)
    /\ (/\ call[1] \in {"tkinter.add_or_save_student", "StudentsTab._create", "StudentsTab._update"}
        /\ student_email_exists(before, call[5], IF call[1] = "StudentsTab._create" THEN NULL
                                                 ELSE IF call[1] = "StudentsTab._update" THEN call[6]
                                                 ELSE call[2]))
       => Db = before

\* a form with an invalid field: a blank name, a blank id, an age that is not
\* a non-negative integer, an email not of the shape local@domain.tld
InvalidFields(name, age, email, id) ==
    \/ name = ""
    \/ id = ""
    \/ ~utils_valid_age(age)
    \/ ~utils_valid_email(email)

\* C17: a create of a student with an invalid field persisted no row: the
\* database is as the call found it, for utils.add_student called directly
\* (which returned False), the tkinter form in create mode, and the PyQt form
\* (Student constructor, then DatabaseManager.add_student).
C17_InvalidCreateFails ==
    /\ (call[1] = "utils.add_student" /\ InvalidFields(call[2], call[3], call[4], call[5]))
       => (ret = "False" /\ Db = before)
    /\ (/\ call[1] = "tkinter.add_or_save_student"
        /\ call[2] = NULL
        /\ InvalidFields(call[3], call[4], call[5], call[6]))
       => Db = before
    /\ (call[1] = "StudentsTab._create" /\ InvalidFields(call[3], call[4], call[5], call[6]))
       => Db = before

\* C18: an update through a form never adds or removes a row, and when the id
\* in the form differed from the id of the selected row the database is as the
\* call found it (tkinter add_or_save_student / add_or_save_course in edit
\* mode, PyQt StudentsTab._update / CoursesTab._update).
C18_IdImmutable ==
    /\ (/\ call[1] \in {"tkinter.add_or_save_student", "StudentsTab._update"}
        /\ call[2] # NULL)
       => /\ DOMAIN Db.students = DOMAIN before.students
          /\ (call[6] # call[2] => Db = before)
    /\ (call[1] = "tkinter.add_or_save_course" /\ call[2] # NULL)
       => /\ DOMAIN Db.courses = DOMAIN before.courses
          /\ (call[4] # call[2] => Db = before)
    /\ (call[1] = "CoursesTab._update" /\ call[2] # NULL)
       => /\ DOMAIN Db.courses = DOMAIN before.courses
          /\ (call[3] # call[2] => Db = before)

\* C26: in the object model the two sides of the enrollment relation agree and
\* hold no duplicates: a course is in student.registered_courses exactly when
\* the student is in course.enrolled_students, and no student is twice in
\* course.enrolled_students (after any register_course / unregister_course /
\* Course.add_student calls).
C26_EnrollmentSidesAgree ==
    \A s \in StudentIds : \A c \in DOMAIN enrolled_students :
        /\ Contains(registered_courses[s], c) <=> Contains(enrolled_students[c], s)
        /\ Count(enrolled_students[c], s) <= 1

\* C27: in the object model the two sides of the assignment relation agree: a
\* course is in instructor.assigned_courses exactly when course.instructor is
\* that instructor, so a course is in the assigned_courses of at most one
\* instructor (after any Course construction, assign_course, unassign_course).
C27_AssignmentSidesAgree ==
    \A c \in DOMAIN instructor :
        /\ \A i \in InstructorIds : Contains(assigned_courses[i], c) <=> instructor[c] = i
        /\ Cardinality({i \in InstructorIds : Contains(assigned_courses[i], c)}) <= 1

UnassignCalls == {"DatabaseManager.unassign_instructor_from_course"}

\* C30: enroll and unenroll left every student, instructor and course row and
\* every other enrollment pair as they were; assign and unassign left every
\* student and instructor row, every enrollment pair and every other course as
\* they were, and of the named course changed at most the instructor_id
\* (utils and DatabaseManager).
C30_RelationFrames ==
    /\ call[1] \in EnrollCalls \cup UnenrollCalls
       => /\ Db.students = before.students
          /\ Db.instructors = before.instructors
          /\ Db.courses = before.courses
          /\ \A p \in Pairs \ {<<call[2], call[3]>>} :
                 Db.registrations[p] = before.registrations[p]
    /\ call[1] \in AssignCalls \cup UnassignCalls
       => LET course_id == IF call[1] \in AssignCalls THEN call[3] ELSE call[2]
          IN  /\ Db.students = before.students
              /\ Db.instructors = before.instructors
              /\ Db.registrations = before.registrations
              /\ DOMAIN Db.courses = DOMAIN before.courses
              /\ \A c \in DOMAIN before.courses :
                     /\ Db.courses[c].course_name = before.courses[c].course_name
                     /\ (c # course_id => Db.courses[c] = before.courses[c])

\* C30 witness: an assign that changed the instructor of its course while
\* another course had an instructor and an enrollment row existed
C30_AssignBesideOtherCourse ==
    /\ call[1] \in AssignCalls
    /\ ret = "True"
    /\ Db # before
    /\ \E c \in (DOMAIN before.courses) \ {call[3]} :
           before.courses[c].instructor_id \notin {NULL, call[2]}
    /\ \E p \in Pairs : before.registrations[p] > 0

\* --------------------------------------------------------- loaded objects
\* The object model over objects loaded from school_management.db: the GUI
\* reads a Student with DatabaseManager.get_student and then works on the
\* objects it got.  The database is one DatabaseManager can hold: students,
\* courses without instructor, and registrations between rows that exist.
StudentRow(s) ==
    LET n == CHOOSE m \in 1..NumStudents : StudentIdPool[m] = s
    IN  [name |-> PersonName, age |-> Age, email |-> StudentEmailPool[n]]
StoredDb(ss, cs, regs) ==
    [students |-> [s \in ss |-> StudentRow(s)],
     instructors |-> << >>,
     courses |-> [c \in cs |-> [course_name |-> CourseName[c], instructor_id |-> NULL]],
     registrations |-> [p \in Pairs |-> IF p \in regs THEN 1 ELSE 0]]
StoredDbs ==
    UNION {{StoredDb(ss, cs, regs) : regs \in SUBSET (ss \X cs)} :
              ss \in SUBSET StudentIds, cs \in SUBSET CourseIds}

\* the orders in which a SELECT without ORDER BY can return the rows of a set
Orders(S) == {q \in [1..Cardinality(S) -> S] : \A x \in S : \E n \in DOMAIN q : q[n] = x}

\* student = db.get_student(student_id): a new Student whose registered_courses
\* are new Course objects, one per joined row, each built by Course(id, name,
\* instructor) and so with an empty enrolled_students.  The program goes on
\* with the loaded objects: they are the object graph from here.
get_student(student_id) ==
    LET loaded == DatabaseManager_get_student(ddb, student_id)
        c == <<"DatabaseManager.get_student", student_id>>
    IN  /\ impl = "classes"
        /\ before' = Objects
        /\ call' = c
        /\ open_connections' = sqlite3_connect(open_connections)
        /\ UNCHANGED <<impl, dbvars, guivars>>
        /\ IF loaded.exc # "None"
           THEN UNCHANGED objvars /\ ret' = loaded.exc
           ELSE IF ~loaded.found
           THEN UNCHANGED objvars /\ ret' = "None"
           ELSE /\ \E rows \in Orders(loaded.value.registered_courses) :
                       registered_courses' = [s \in StudentIds |->
                                                 IF s = student_id THEN rows ELSE << >>]
                /\ enrolled_students' = [k \in loaded.value.registered_courses |-> << >>]
                /\ instructor' = [k \in loaded.value.registered_courses |->
                                     ddb.courses[k].instructor_id]
                /\ assigned_courses' = [i \in InstructorIds |-> << >>]
                /\ ret' = "Student"

LoadInit ==
    /\ impl = "classes"
    /\ udb = EmptyDb
    /\ ddb \in StoredDbs
    /\ registered_courses = [s \in StudentIds |-> << >>]
    /\ assigned_courses = [i \in InstructorIds |-> << >>]
    /\ enrolled_students = << >>
    /\ instructor = << >>
    /\ call = <<"__init__">>
    /\ ret = "None"
    /\ before = Objects
    /\ selected_student_id = NULL
    /\ selected_course_id = NULL
    /\ open_connections = sqlite3_connect("none")

LoadNext ==
    \/ \E s \in StudentIds : get_student(s)
    \/ \E c \in CourseIds : Course_init(c, NULL)
    \/ \E s \in StudentIds, c \in CourseIds :
          \/ Student_register_course(s, c)
          \/ Student_unregister_course(s, c)
          \/ Course_add_student(c, s)

LoadSpec == LoadInit /\ [][LoadNext]_vars

\* ------------------------------------------------------ database handles
\* The repositories with the reads of database.py and the interpreter's
\* garbage collector: a Connection nothing refers to any more is closed when
\* the collector finalises it, which happens at a time the program does not
\* choose.
\* database.fetch_one, as utils.get_student calls it: the row or None
fetch_one(student_id) ==
    LET row == utils_get_student(udb, student_id)
    IN  UtilsStep([db |-> udb, cur |-> IF row.found THEN "row" ELSE NULL],
                  <<"utils.get_student", student_id>>)

\* database.fetch_all, as utils.student_courses calls it: the rows (maybe none)
fetch_all(student_id) ==
    UtilsStep([db |-> udb, cur |-> IF utils_student_courses(udb, student_id) # {}
                                   THEN "rows" ELSE NULL],
              <<"utils.student_courses", student_id>>)

\* the collector finalises the unreferenced Connection objects
finalize ==
    /\ open_connections = "some"
    /\ open_connections' = "none"
    /\ UNCHANGED <<impl, dbvars, objvars, guivars, call, ret, before>>

ConnNext ==
    \/ Next
    \/ \E s \in StudentIds :
          \/ fetch_one(s)
          \/ fetch_all(s)
    \/ finalize

ConnSpec == Init /\ [][ConnNext]_vars

\* C24: every repository operation releases the database handle it opened
\* before it returns, on every exit path: between any two operations no
\* connection is open.
C24_NoOpenConnection == open_connections = "none"

\* ------------------------------------------------- the two repositories
\* Both repositories driven side by side from empty databases: every
\* operation is called on utils (school.db) and on DatabaseManager
\* (school_management.db) with the same arguments; ret and before hold the
\* pair <<utils, DatabaseManager>>.
Both(u, d, result, c) ==
    /\ impl = "utils+DatabaseManager"
    /\ before' = <<udb, ddb>>
    /\ udb' = u.db
    /\ ddb' = d.db
    /\ ret' = <<Bool(u.cur # NULL), Bool(d.ok /\ result)>>
    /\ call' = c
    /\ open_connections' = sqlite3_connect(conn_close(open_connections))
    /\ UNCHANGED <<impl, objvars, guivars>>

\* utils.add_student / DatabaseManager.add_student
create_student(name, age, email, student_id) ==
    LET d == InsertPerson(ddb, get_connection, "students", student_id, name, IntLiterals[age], email)
    IN  Both(run(InsertPerson(udb, Connect, "students", student_id, name, IntOrZero(age), email)),
             d, TRUE, <<"create_student", name, age, email, student_id>>)

\* utils.add_instructor / DatabaseManager.add_instructor
create_instructor(name, age, email, instructor_id) ==
    LET d == InsertPerson(ddb, get_connection, "instructors", instructor_id, name,
                          IntLiterals[age], email)
    IN  Both(run(InsertPerson(udb, Connect, "instructors", instructor_id, name,
                              IntOrZero(age), email)),
             d, TRUE, <<"create_instructor", name, age, email, instructor_id>>)

\* utils.add_course / DatabaseManager.add_course
create_course(course_id, course_name, instructor_id) ==
    LET d == InsertCourse(ddb, get_connection, course_id, course_name, instructor_id)
    IN  Both(run(InsertCourse(udb, Connect, course_id, course_name, instructor_id)),
             d, TRUE, <<"create_course", course_id, course_name, instructor_id>>)

\* utils.delete_student / DatabaseManager.delete_student
delete_student(student_id) ==
    LET first == DeleteRegistrations(ddb, {student_id}, CourseIds)
        d == Then(ddb, first, DeleteStudentRow(first.db, get_connection, student_id))
    IN  Both(run(DeleteStudentRow(udb, Connect, student_id)),
             d, d.rowcount > 0, <<"delete_student", student_id>>)

\* utils.delete_instructor / DatabaseManager.delete_instructor
delete_instructor(instructor_id) ==
    LET first == ClearInstructor(ddb, instructor_id)
        d == Then(ddb, first, DeleteInstructorRow(first.db, get_connection, instructor_id))
    IN  Both(run(DeleteInstructorRow(udb, Connect, instructor_id)),
             d, d.rowcount > 0, <<"delete_instructor", instructor_id>>)

\* utils.delete_course / DatabaseManager.delete_course
delete_course(course_id) ==
    LET first == DeleteRegistrations(ddb, StudentIds, {course_id})
        d == Then(ddb, first, DeleteCourseRow(first.db, get_connection, course_id))
    IN  Both(run(DeleteCourseRow(udb, Connect, course_id)),
             d, d.rowcount > 0, <<"delete_course", course_id>>)

\* utils.register_student_to_course / DatabaseManager.register_student_in_course
enroll(student_id, course_id) ==
    LET d == InsertOrIgnoreRegistration(ddb, get_connection, student_id, course_id)
    IN  Both(run(InsertOrIgnoreRegistration(udb, Connect, student_id, course_id)),
             d, d.rowcount > 0, <<"enroll", student_id, course_id>>)

\* utils.unregister_student_from_course / DatabaseManager.unregister_student_from_course
unenroll(student_id, course_id) ==
    LET d == DeleteRegistrations(ddb, {student_id}, {course_id})
    IN  Both(run(DeleteRegistrations(udb, {student_id}, {course_id})),
             d, d.rowcount > 0, <<"unenroll", student_id, course_id>>)

\* utils.assign_instructor_to_course / DatabaseManager.assign_instructor_to_course
assign(instructor_id, course_id) ==
    LET d == IF existing_course(ddb, instructor_id, course_id) \/ existing_instructor(ddb, course_id)
             THEN Done(ddb, 0)
             ELSE SetInstructor(ddb, get_connection, course_id, instructor_id)
    IN  Both(run(SetInstructor(udb, Connect, course_id, instructor_id)),
             d, d.rowcount > 0, <<"assign", instructor_id, course_id>>)

BothInit ==
    /\ impl = "utils+DatabaseManager"
    /\ udb = EmptyDb
    /\ ddb = EmptyDb
    /\ registered_courses = [s \in StudentIds |-> << >>]
    /\ assigned_courses = [i \in InstructorIds |-> << >>]
    /\ enrolled_students = << >>
    /\ instructor = << >>
    /\ call = <<"__init__">>
    /\ ret = <<"None", "None">>
    /\ before = <<EmptyDb, EmptyDb>>
    /\ selected_student_id = NULL
    /\ selected_course_id = NULL
    /\ open_connections = sqlite3_connect("none")

BothNext ==
    \/ \E n \in 1..NumStudents :
          \/ create_student(PersonName, AgeText, StudentEmailPool[n], StudentIdPool[n])
          \/ delete_student(StudentIdPool[n])
    \/ \E i \in InstructorIds :
          \/ create_instructor(PersonName, AgeText, InstructorEmail[i], i)
          \/ delete_instructor(i)
    \/ \E c \in CourseIds :
          \/ \E i \in InstructorOrNone : create_course(c, CourseName[c], i)
          \/ delete_course(c)
    \/ \E s \in StudentIds, c \in CourseIds :
          \/ enroll(s, c)
          \/ unenroll(s, c)
    \/ \E i \in InstructorIds, c \in CourseIds : assign(i, c)

BothSpec == BothInit /\ [][BothNext]_vars

\* C25: driven by the same operations with the same arguments from empty
\* stores, utils and DatabaseManager return the same success/failure result
\* and hold the same students, instructors, courses, enrollment pairs and
\* course-to-instructor links.
C25_RepositoriesAgree ==
    /\ ret[1] = ret[2]
    /\ DOMAIN udb.students = DOMAIN ddb.students
    /\ DOMAIN udb.instructors = DOMAIN ddb.instructors
    /\ DOMAIN udb.courses = DOMAIN ddb.courses
    /\ {p \in Pairs : udb.registrations[p] > 0} = {p \in Pairs : ddb.registrations[p] > 0}
    /\ \A c \in DOMAIN udb.courses \cap DOMAIN ddb.courses :
           udb.courses[c].instructor_id = ddb.courses[c].instructor_id

\* C28: Student.unregister_course never raises, and it either removes the link
\* from both student.registered_courses and course.enrolled_students or
\* changes neither list, whether the objects were constructed, linked by
\* register_course / add_student, or loaded by DatabaseManager.get_student.
C28_UnregisterAllOrNothing ==
    call[1] = "Student.unregister_course" =>
        LET s == call[2]
            c == call[3]
        IN  /\ ret # "ValueError"
            /\ \/ Objects = before
               \/ /\ Contains(before.registered_courses[s], c)
                  /\ Contains(before.enrolled_students[c], s)
                  /\ registered_courses[s] = Remove(before.registered_courses[s], c)
                  /\ enrolled_students[c] = Remove(before.enrolled_students[c], s)

\* ------------------------------------------------- JSON export and import
\* A JSON number is carried as its literal text ("20"), a JSON string that is
\* no number as itself ("x"), a missing key or null as NULL.
json_dumps(n) == CHOOSE x \in DOMAIN IntLiterals : IntLiterals[x] = n

InstructorIdPool == <<"I1", "I2">>
CourseIdPool == <<"C1", "C2">>
\* ORDER BY <id>: the keys in S, in the order of the pool
Sorted(S, pool) == SelectSeq(pool, LAMBDA x : x \in S)

\* utils.export_to_json: list_students() (each with its registered_course_ids),
\* list_instructors() with instructor_courses(id), list_courses() with
\* instructor_id and the student_ids of course_students(id)
export_to_json(db) ==
    LET ss == Sorted(DOMAIN db.students, StudentIdPool)
        is == Sorted(DOMAIN db.instructors, InstructorIdPool)
        cs == Sorted(DOMAIN db.courses, CourseIdPool)
    IN  [students |-> [n \in 1..Len(ss) |->
                          [student_id |-> ss[n], name |-> db.students[ss[n]].name,
                           age |-> json_dumps(db.students[ss[n]].age),
                           email |-> db.students[ss[n]].email,
                           registered_course_ids |-> utils_student_courses(db, ss[n])]],
         instructors |-> [n \in 1..Len(is) |->
                          [instructor_id |-> is[n], name |-> db.instructors[is[n]].name,
                           age |-> json_dumps(db.instructors[is[n]].age),
                           email |-> db.instructors[is[n]].email,
                           assigned_course_ids |-> utils_instructor_courses(db, is[n])]],
         courses |-> [n \in 1..Len(cs) |->
                          [course_id |-> cs[n], course_name |-> db.courses[cs[n]].course_name,
                           instructor_id |-> db.courses[cs[n]].instructor_id,
                           student_ids |-> utils_course_students(db, cs[n])]]]

\* the step of an export: the database is only read; ret holds whether a file
\* was written and the blob written to it
ExportStep(written, blob, c) ==
    /\ before' = Db
    /\ ret' = [written |-> written, blob |-> blob]
    /\ call' = c
    /\ UNCHANGED <<impl, dbvars, objvars, guivars>>

utils_export_to_json ==
    /\ impl = "utils"
    /\ open_connections' = conn_close(open_connections)
    /\ ExportStep(TRUE, export_to_json(udb), <<"utils.export_to_json">>)

\* MainWindow.save_data: all_students(), all_instructors() and all_courses()
\* build objects (ValueError from a constructor is not caught by them), and a
\* field is read as `getattr(s, 'age', None) or s.get('age')`, which raises
\* AttributeError on an object whose field is falsy (age 0); any exception
\* ends in err(...) with no file written
save_data_raises(db) ==
    \/ \E s \in DOMAIN db.students :
          \/ ~Person_init(db.students[s].name, db.students[s].age, db.students[s].email, s)
          \/ DatabaseManager_get_student_courses(db, s).exc # "None"
          \/ db.students[s].age = 0
    \/ \E i \in DOMAIN db.instructors :
          \/ ~Person_init(db.instructors[i].name, db.instructors[i].age, db.instructors[i].email, i)
          \/ db.instructors[i].age = 0
    \/ all_courses_raises(db)

NoBlob == [students |-> << >>, instructors |-> << >>, courses |-> << >>]

\* the blob of save_data: four fields per person, three per course
save_data(db, ss, is, cs) ==
    [students |-> [n \in 1..Len(ss) |->
                      [student_id |-> ss[n], name |-> db.students[ss[n]].name,
                       age |-> json_dumps(db.students[ss[n]].age),
                       email |-> db.students[ss[n]].email]],
     instructors |-> [n \in 1..Len(is) |->
                      [instructor_id |-> is[n], name |-> db.instructors[is[n]].name,
                       age |-> json_dumps(db.instructors[is[n]].age),
                       email |-> db.instructors[is[n]].email]],
     courses |-> [n \in 1..Len(cs) |->
                      [course_id |-> cs[n], course_name |-> db.courses[cs[n]].course_name,
                       instructor_id |-> db.courses[cs[n]].instructor_id]]]

\* the rows come ORDER BY name / course_name; equal names come in any order
MainWindow_save_data ==
    /\ impl = "DatabaseManager"
    /\ open_connections' = sqlite3_connect(open_connections)
    /\ IF save_data_raises(ddb)
       THEN ExportStep(FALSE, NoBlob, <<"MainWindow.save_data">>)
       ELSE \E ss \in Orders(DOMAIN ddb.students), is \in Orders(DOMAIN ddb.instructors) :
               ExportStep(TRUE,
                          save_data(ddb, ss, is, Sorted(DOMAIN ddb.courses, CourseIdPool)),
                          <<"MainWindow.save_data">>)

\* add_x(...) and, when it returned False, update_x(...)
upsert_person(db, table, id, e) ==
    LET added == run(InsertPerson(db, Connect, table, id, e.name, IntOrZero(e.age), e.email))
    IN  IF added.cur # NULL THEN added.db
        ELSE run(UpdatePerson(db, Connect, table, id, e.name, IntOrZero(e.age), e.email)).db

upsert_course(db, e) ==
    LET added == run(InsertCourse(db, Connect, e.course_id, e.course_name, e.instructor_id))
    IN  IF added.cur # NULL THEN added.db
        ELSE run(UpdateCourse(db, Connect, e.course_id, e.course_name, e.instructor_id)).db

RECURSIVE import_instructors(_, _)
import_instructors(db, list) ==
    IF list = << >> THEN db
    ELSE import_instructors(upsert_person(db, "instructors", Head(list).instructor_id, Head(list)),
                            Tail(list))

RECURSIVE import_students(_, _)
import_students(db, list) ==
    IF list = << >> THEN db
    ELSE import_students(upsert_person(db, "students", Head(list).student_id, Head(list)),
                         Tail(list))

RECURSIVE import_courses(_, _)
import_courses(db, list) ==
    IF list = << >> THEN db
    ELSE import_courses(upsert_course(db, Head(list)), Tail(list))

\* register_student_to_course(sid, cid) for each listed pair; a call that
\* fails changes nothing and the loop goes on
RECURSIVE import_registrations(_, _)
import_registrations(db, pairs) ==
    IF pairs = {} THEN db
    ELSE LET p == CHOOSE q \in pairs : TRUE
         IN  import_registrations(run(InsertOrIgnoreRegistration(db, Connect, p[1], p[2])).db,
                                  pairs \ {p})

\* the pairs a blob lists on the student side and on the course side
StudentSidePairs(data) ==
    UNION {{<<data.students[n].student_id, c>> : c \in data.students[n].registered_course_ids} :
              n \in DOMAIN data.students}
CourseSidePairs(data) ==
    UNION {{<<s, data.courses[n].course_id>> : s \in data.courses[n].student_ids} :
              n \in DOMAIN data.courses}

\* utils.import_from_json: instructors, students, courses, then the
\* registrations of the students list and those of the courses list
import_from_json(db, data) ==
    LET entities == import_courses(import_students(import_instructors(db, data.instructors),
                                                   data.students),
                                   data.courses)
    IN  import_registrations(import_registrations(entities, StudentSidePairs(data)),
                             CourseSidePairs(data))

utils_import_from_json(data) ==
    UtilsStep([db |-> import_from_json(udb, data), cur |-> "True"],
              <<"utils.import_from_json", data>>)

\* Student(name=d['name'], age=d['age'], ...): KeyError on a missing key,
\* ValueError from a validator (age must be an int >= 0)
json_person_valid(e, id) ==
    /\ e.age \in DOMAIN IntLiterals
    /\ Person_init(e.name, IntLiterals[e.age], e.email, id)

\* load_data, per list: an entity whose constructor raises is printed and
\* skipped; the result of self.db.add_x is not looked at
RECURSIVE load_persons(_, _, _)
load_persons(db, table, list) ==
    IF list = << >> THEN db
    ELSE LET e == Head(list)
             id == IF table = "students" THEN e.student_id ELSE e.instructor_id
             next == IF json_person_valid(e, id)
                     THEN InsertPerson(db, get_connection, table, id, e.name,
                                       IntLiterals[e.age], e.email).db
                     ELSE db
         IN  load_persons(next, table, Tail(list))

\* instructor = self.db.get_instructor(id) if the blob names one (None when
\* there is no such row); Course(...) then add_course
RECURSIVE load_courses(_, _)
load_courses(db, list) ==
    IF list = << >> THEN db
    ELSE LET e == Head(list)
             got == IF e.instructor_id = NULL THEN ReturnedNone
                    ELSE DatabaseManager_get_instructor(db, e.instructor_id)
             next == IF got.exc # "None" \/ ~Course_valid(e.course_id, e.course_name) THEN db
                     ELSE InsertCourse(db, get_connection, e.course_id, e.course_name,
                                       IF got.found THEN e.instructor_id ELSE NULL).db
         IN  load_courses(next, Tail(list))

\* MainWindow.load_data: clear_database(), students, instructors, courses,
\* refresh_all(); the lists of enrollments in the blob are not read
load_data(db, data) ==
    load_courses(load_persons(load_persons(EmptyDb, "students", data.students),
                              "instructors", data.instructors),
                 data.courses)

MainWindow_load_data(data) ==
    PyQtDone(load_data(ddb, data), <<"MainWindow.load_data", data>>)

\* the blobs: at most two instructors (with their own emails or with each
\* other's), at most one student (a valid one with registered_course_ids, or
\* one whose age is no number), at most one course; they name one course id
BlobCourseIds == {CourseIdPool[1]}
InstructorEntity(i, email) ==
    [instructor_id |-> i, name |-> PersonName, age |-> AgeText, email |-> email]
StudentEntity(s, age, courses) ==
    [student_id |-> s, name |-> PersonName, age |-> age,
     email |-> StudentRow(s).email, registered_course_ids |-> courses]
CourseEntity(c, i, students) ==
    [course_id |-> c, course_name |-> CourseName[c], instructor_id |-> i, student_ids |-> students]
InstructorLists ==
    {<< >>}
    \cup {<<InstructorEntity(i, InstructorEmail[i])>> : i \in InstructorIds}
    \cup {<<InstructorEntity(j, InstructorEmail[i]), InstructorEntity(i, InstructorEmail[j])>> :
             <<i, j>> \in {p \in InstructorIds \X InstructorIds : p[1] # p[2]}}
StudentLists ==
    {<< >>}
    \cup {<<StudentEntity(s, AgeText, cs)>> : s \in StudentIds, cs \in SUBSET BlobCourseIds}
    \cup {<<StudentEntity(s, "x", {})>> : s \in StudentIds}
CourseLists ==
    {<< >>}
    \cup {<<CourseEntity(c, i, ss)>> : c \in BlobCourseIds, i \in InstructorOrNone,
                                      ss \in SUBSET StudentIds}
Blobs == [instructors : InstructorLists, students : StudentLists, courses : CourseLists]

ImportInit == Init /\ impl \in {"utils", "DatabaseManager"}

ImportNext ==
    \/ \E data \in Blobs :
          \/ utils_import_from_json(data)
          \/ MainWindow_load_data(data)
    \/ utils_export_to_json
    \/ MainWindow_save_data
    \/ \E s \in StudentIds, c \in BlobCourseIds :
          \/ utils_unregister_student_from_course(s, c)
          \/ DatabaseManager_register_student_in_course(s, c)

ImportSpec == ImportInit /\ [][ImportNext]_vars

ExportCalls == {"utils.export_to_json", "MainWindow.save_data"}
ImportCalls == {"utils.import_from_json", "MainWindow.load_data"}

\* C21: the blob an export produces contains every student, instructor and
\* course of the store, every course's instructor id, and every enrollment
\* pair, on the student side or on the course side.
C21_ExportCoversStore ==
    call[1] \in ExportCalls =>
        LET blob == ret.blob
        IN  /\ ret.written
            /\ \A s \in DOMAIN Db.students :
                   \E n \in DOMAIN blob.students : blob.students[n].student_id = s
            /\ \A i \in DOMAIN Db.instructors :
                   \E n \in DOMAIN blob.instructors : blob.instructors[n].instructor_id = i
            /\ \A c \in DOMAIN Db.courses :
                   \E n \in DOMAIN blob.courses :
                       /\ blob.courses[n].course_id = c
                       /\ blob.courses[n].instructor_id = Db.courses[c].instructor_id
            /\ \A p \in Pairs :
                   Db.registrations[p] > 0 =>
                       \/ \E n \in DOMAIN blob.students :
                             /\ blob.students[n].student_id = p[1]
                             /\ "registered_course_ids" \in DOMAIN blob.students[n]
                             /\ p[2] \in blob.students[n].registered_course_ids
                       \/ \E n \in DOMAIN blob.courses :
                             /\ blob.courses[n].course_id = p[2]
                             /\ "student_ids" \in DOMAIN blob.courses[n]
                             /\ p[1] \in blob.courses[n].student_ids

\* the ids a blob lists
BlobIds(list, field) == {list[n][field] : n \in DOMAIN list}
\* a person entity with every field present and valid
ValidPerson(e, id) ==
    /\ e.age \in DOMAIN IntLiterals
    /\ Person_init(e.name, IntLiterals[e.age], e.email, id)
\* a well-formed blob: valid entities, no id and no email twice in a list,
\* instructor ids and enrollment ids that the blob itself defines
WellFormed(data) ==
    /\ \A n \in DOMAIN data.students : ValidPerson(data.students[n], data.students[n].student_id)
    /\ \A n \in DOMAIN data.instructors :
           ValidPerson(data.instructors[n], data.instructors[n].instructor_id)
    /\ \A n \in DOMAIN data.courses :
           /\ Course_valid(data.courses[n].course_id, data.courses[n].course_name)
           /\ data.courses[n].instructor_id \in
                  {NULL} \cup BlobIds(data.instructors, "instructor_id")
    /\ \A n, m \in DOMAIN data.instructors :
           n # m => /\ data.instructors[n].instructor_id # data.instructors[m].instructor_id
                    /\ data.instructors[n].email # data.instructors[m].email
    /\ \A p \in StudentSidePairs(data) \cup CourseSidePairs(data) :
           /\ p[1] \in BlobIds(data.students, "student_id")
           /\ p[2] \in BlobIds(data.courses, "course_id")

\* the row a person entity is stored as
PersonRow(e) == [name |-> e.name, age |-> IntLiterals[e.age], email |-> e.email]

\* C22: after importing a well-formed blob the store contains every entity of
\* the blob with the blob's field values, every course has the blob's
\* instructor id, and every enrollment pair listed on either side is there
\* exactly once.
C22_ImportStoresBlob ==
    (call[1] \in ImportCalls /\ WellFormed(call[2])) =>
        LET data == call[2]
        IN  /\ \A n \in DOMAIN data.students :
                   /\ data.students[n].student_id \in DOMAIN Db.students
                   /\ Db.students[data.students[n].student_id] = PersonRow(data.students[n])
            /\ \A n \in DOMAIN data.instructors :
                   /\ data.instructors[n].instructor_id \in DOMAIN Db.instructors
                   /\ Db.instructors[data.instructors[n].instructor_id]
                          = PersonRow(data.instructors[n])
            /\ \A n \in DOMAIN data.courses :
                   /\ data.courses[n].course_id \in DOMAIN Db.courses
                   /\ Db.courses[data.courses[n].course_id] =
                          [course_name |-> data.courses[n].course_name,
                           instructor_id |-> data.courses[n].instructor_id]
            /\ \A p \in StudentSidePairs(data) \cup CourseSidePairs(data) :
                   Db.registrations[p] = 1

\* the store an import starts from: load_data clears the database first
ImportedInto == IF call[1] = "MainWindow.load_data" THEN EmptyDb ELSE before
\* the rows of a table under one id: one or none
RowIn(table, id) == IF id \in DOMAIN table THEN <<table[id]>> ELSE << >>

\* C23: import fails entity by entity: the import completes; a malformed
\* entity (a student with an invalid field, a course naming an absent
\* instructor) is skipped, its row being as the import found it; the
\* well-formed students and courses of the blob and the enrollments between
\* them are imported.
C23_ImportSkipsMalformed ==
    call[1] \in ImportCalls =>
        LET data == call[2]
            good_students == {n \in DOMAIN data.students :
                                 ValidPerson(data.students[n], data.students[n].student_id)}
            good_courses == {n \in DOMAIN data.courses :
                                data.courses[n].instructor_id \in {NULL} \cup DOMAIN Db.instructors}
        IN  /\ ret \in {"True", "None"}
            /\ \A n \in (DOMAIN data.students) \ good_students :
                   RowIn(Db.students, data.students[n].student_id)
                       = RowIn(ImportedInto.students, data.students[n].student_id)
            /\ \A n \in (DOMAIN data.courses) \ good_courses :
                   RowIn(Db.courses, data.courses[n].course_id)
                       = RowIn(ImportedInto.courses, data.courses[n].course_id)
            /\ \A n \in good_students :
                   /\ data.students[n].student_id \in DOMAIN Db.students
                   /\ Db.students[data.students[n].student_id] = PersonRow(data.students[n])
            /\ \A n \in good_courses : data.courses[n].course_id \in DOMAIN Db.courses
            /\ \A p \in StudentSidePairs(data) \cup CourseSidePairs(data) :
                   (/\ \E n \in good_students : data.students[n].student_id = p[1]
                    /\ \E n \in good_courses : data.courses[n].course_id = p[2])
                       => Db.registrations[p] = 1

\* C29: utils.import_from_json is idempotent: importing the blob just
\* imported once more leaves students, instructors, courses, instructor links
\* and enrollment pairs as they are.
C29_ImportIdempotent ==
    call[1] = "utils.import_from_json" => import_from_json(udb, call[2]) = udb

====
